---- MODULE Spec2Model ----
(***************************************************************************)
(* The trim-session state machine of src/src/App.tsx (the App component    *)
(* that starts at line 461): the React state of the component, the engine  *)
(* handle kept in ffmpegRef, the engine's virtual filesystem, the object   *)
(* URLs that are live, and the asynchronous handleTrim / handleShare calls *)
(* that are suspended at an await.                                         *)
(*                                                                         *)
(* Units.  The range inputs run from 0 to 100 in steps of 0.1, so a        *)
(* fraction is kept as a whole number of slider steps (tenths of a         *)
(* percent): 100 percent is 100 * StepsPerPercent and the code's           *)
(* "endTime - 1" is "endTime - StepsPerPercent".  videoDuration is in      *)
(* whole seconds, and a time (fraction / 100) * videoDuration is kept in   *)
(* units of 1 / (100 * StepsPerPercent) second, where it is the integer    *)
(* fraction * videoDuration.  Rounding of the floating-point operations    *)
(* is not modelled.                                                        *)
(***************************************************************************)
EXTENDS Integers, Sequences, FiniteSets, TLC

\* The number of trimAndDeliver calls that may be suspended at the same time.
MaxCalls == 2
\* The number of object URLs that may be live at the same time.
MaxUrls == 2

\* step="0.1" on both range inputs: slider steps per percentage point.
StepsPerPercent == 10
\* max="100" / setEndTime(100), in slider steps.
Hundred == 100 * StepsPerPercent

Null == "null"

---------------------------------------------------------------------------
(* The files the user may pick, with their declared type (File.type) and   *)
(* the duration the preview surface reports for them.                      *)

VideoFiles == {"a.mp4", "b.mp4"}
OtherFiles == {"c.png", "d.mkv"}
Files == VideoFiles \cup OtherFiles

FileType(f) ==
    CASE f = "a.mp4" -> <<"v", "i", "d", "e", "o", "/", "m", "p", "4">>
      [] f = "b.mp4" -> <<"v", "i", "d", "e", "o", "/", "w", "e", "b", "m">>
      [] f = "c.png" -> <<"i", "m", "a", "g", "e", "/", "p", "n", "g">>
      \* a file whose type the browser does not know declares ''
      [] OTHER -> << >>

MediaDuration(f) ==
    CASE f = "a.mp4" -> 120
      [] f = "b.mp4" -> 60
      [] OTHER -> 0

\* String.prototype.startsWith
StartsWith(s, prefix) ==
    /\ Len(s) >= Len(prefix)
    /\ \A k \in 1..Len(prefix) : s[k] = prefix[k]

VideoPrefix == <<"v", "i", "d", "e", "o", "/">>

\* The test without the type.
IsAnyFile(f) == f # Null

\* file && file.type.startsWith('video/')
IsVideoFile(f) == f # Null /\ StartsWith(FileType(f), VideoPrefix)

\* The positions the range inputs are dragged to, in slider steps.
SliderValues == {0, 5, 250, 750, 995, Hundred}
\* The one position both handles are dragged to where the engine runs beside
\* the sliders: half a percent, below the one-point gap the setters keep.
CoarseValues == {5}

---------------------------------------------------------------------------
(* Byte buffers: the content of a source file, or what the engine wrote.   *)

NoData == [kind |-> "none"]
EmptyData == [kind |-> "empty"]
FileData(f) == [kind |-> "file", src |-> f]
ClipData(input, ss, t) == [kind |-> "clip", src |-> input, ss |-> ss, t |-> t]

\* data.length === 0
IsEmpty(d) == d.kind = "empty"

EmptyFS == [input |-> NoData, output |-> NoData]

NoSeek == 0 - 1

Calls == 1..MaxCalls
Urls == 1..MaxUrls

Idle == [pc |-> "idle", mode |-> "none", file |-> Null, ss |-> 0, t |-> 0,
         inst |-> 0, exit |-> 0, data |-> NoData]

VARIABLES
    currentFile,       \* useState<File | null>
    currentUrl,        \* useState<string | null>: 0 is null
    videoDuration,     \* useState<number>
    startTime,         \* useState<number>, in slider steps
    endTime,           \* useState<number>, in slider steps
    loading,           \* useState<boolean>
    showTrimControls,  \* useState<boolean>
    showActions,       \* useState<boolean>
    ffmpegRef,         \* ffmpegRef.current: 0 is null, else the engine instance
    metaPending,       \* the preview surface has a source whose metadata event is due
    liveUrls,          \* object URLs created and not yet revoked
    revokeTimers,      \* object URLs with a pending setTimeout(revokeObjectURL)
    fs,                \* virtual filesystem of each engine instance
    calls,             \* the handleTrim / handleShare calls suspended at an await
    effect             \* what the last handler step showed, saved, shared or sought

session == <<currentFile, currentUrl, videoDuration, startTime, endTime, loading,
             showTrimControls, showActions>>

vars == <<currentFile, currentUrl, videoDuration, startTime, endTime, loading,
          showTrimControls, showActions, ffmpegRef, metaPending,
          liveUrls, revokeTimers, fs, calls, effect>>

NoEffect == [op |-> "none", alert |-> << >>, via |-> "none", data |-> NoData,
             name |-> << >>, seek |-> NoSeek, exit |-> 0]

\* (startTime / 100) * videoDuration and its companions, lines 483-485
TimeOf(fraction, dur) == fraction * dur
startTimeInSeconds == TimeOf(startTime, videoDuration)
endTimeInSeconds == TimeOf(endTime, videoDuration)
\* The end of the window where its length belongs.
durationAsEnd == endTimeInSeconds
duration == endTimeInSeconds - startTimeInSeconds

Init ==
    /\ currentFile = Null
    /\ currentUrl = 0
    /\ videoDuration = 0
    /\ startTime = 0
    /\ endTime = Hundred
    /\ loading = FALSE
    /\ showTrimControls = FALSE
    /\ showActions = FALSE
    /\ ffmpegRef = 0
    /\ metaPending = FALSE
    /\ liveUrls = {}
    /\ revokeTimers = {}
    /\ fs = [i \in Calls |-> EmptyFS]
    /\ calls = [i \in Calls |-> Idle]
    /\ effect = NoEffect

---------------------------------------------------------------------------
(* Object URLs.  URL.createObjectURL returns an address distinct from      *)
(* every address that is still live; URL.revokeObjectURL releases one.     *)

FreeUrls == Urls \ liveUrls
NewUrl == CHOOSE u \in FreeUrls : \A w \in FreeUrls : u <= w

\* The cleanup revoking the address of the render that follows.
EffectCleanupOfNext(live, nextUrl) ==
    IF nextUrl # currentUrl /\ nextUrl # 0 THEN live \ {nextUrl} ELSE live

\* useEffect(() => () => { if (currentUrl) URL.revokeObjectURL(currentUrl) },
\* [currentUrl]): the cleanup of the previous render's effect runs when
\* currentUrl changes, and revokes the previous address once more.
EffectCleanup(live, nextUrl) ==
    IF nextUrl # currentUrl /\ currentUrl # 0 THEN live \ {currentUrl} ELSE live

---------------------------------------------------------------------------
(* The synchronous handlers.  Each is enabled while the element it is      *)
(* bound to is rendered.                                                   *)

\* if (currentUrl) URL.revokeObjectURL(currentUrl), in handleFileChange
ReleasePrevious(live) == IF currentUrl # 0 THEN live \ {currentUrl} ELSE live

\* The file input storing event.target.files?.[0] ?? null before its test.
HandleFileChangeStoresFirst(file) ==
    /\ IF IsVideoFile(file)
       THEN /\ FreeUrls # {}
            /\ currentFile' = file
            /\ currentUrl' = NewUrl
            /\ liveUrls' = EffectCleanup(ReleasePrevious(liveUrls) \cup {NewUrl}, NewUrl)
            /\ showActions' = TRUE
            /\ metaPending' = TRUE
            /\ effect' = NoEffect
            /\ UNCHANGED <<videoDuration, startTime, endTime, loading,
                           showTrimControls>>
       ELSE /\ effect' = [NoEffect EXCEPT !.op = "handleFileChange",
                                          !.alert = <<"Please select a valid video file">>]
            /\ currentFile' = IF file \in Files THEN currentFile ELSE Null
            /\ UNCHANGED <<currentUrl, videoDuration, startTime, endTime, loading,
                           showTrimControls, showActions, metaPending, liveUrls>>
    /\ UNCHANGED <<ffmpegRef, revokeTimers, fs, calls>>

\* onChange of the file input; file = Null is an event without a file.
HandleFileChange(file) ==
    /\ IF IsVideoFile(file)
       THEN /\ FreeUrls # {}
            /\ currentFile' = file
            /\ currentUrl' = NewUrl
            /\ liveUrls' = EffectCleanup(ReleasePrevious(liveUrls) \cup {NewUrl}, NewUrl)
            /\ showActions' = TRUE
            /\ metaPending' = TRUE
            /\ effect' = NoEffect
            /\ UNCHANGED <<videoDuration, startTime, endTime, loading,
                           showTrimControls>>
       ELSE /\ effect' = [NoEffect EXCEPT !.op = "handleFileChange",
                                          !.alert = <<"Please select a valid video file">>]
            /\ UNCHANGED <<session, metaPending, liveUrls>>
    /\ UNCHANGED <<ffmpegRef, revokeTimers, fs, calls>>

\* onLoadedMetadata of the preview <video>, rendered while currentUrl is set;
\* the event comes once for each source the element is given.
HandleLoadedMetadata ==
    /\ currentUrl # 0
    /\ metaPending
    /\ metaPending' = FALSE
    /\ videoDuration' = MediaDuration(currentFile)
    /\ showTrimControls' = TRUE
    /\ endTime' = Hundred
    /\ effect' = NoEffect
    /\ UNCHANGED <<currentFile, currentUrl, startTime, loading, showActions,
                   ffmpegRef, liveUrls, revokeTimers, fs, calls>>

\* The value stored with > in place of >=.
NewStartTimeStrict(value) ==
    IF value > endTime THEN endTime - StepsPerPercent ELSE value

\* The value stored with < in place of <=.
NewEndTimeStrict(value) ==
    IF value < startTime THEN startTime + StepsPerPercent ELSE value

\* The value handleStartTimeChange stores.
NewStartTime(value) ==
    IF value >= endTime THEN endTime - StepsPerPercent ELSE value

\* The value handleEndTimeChange stores.
NewEndTime(value) ==
    IF value <= startTime THEN startTime + StepsPerPercent ELSE value

\* videoRef.current.currentTime = (value / 100) * videoDuration
SeekFor(value) == IF currentUrl # 0 THEN TimeOf(value, videoDuration) ELSE NoSeek

\* onChange of the start handle, rendered while showTrimControls
HandleStartTimeChange(value) ==
    /\ showTrimControls
    /\ startTime' = NewStartTime(value)
    /\ effect' = [NoEffect EXCEPT !.op = "handleStartTimeChange",
                                  !.seek = SeekFor(value)]
    /\ UNCHANGED <<currentFile, currentUrl, videoDuration, endTime, loading,
                   showTrimControls, showActions, ffmpegRef, metaPending, liveUrls, revokeTimers, fs, calls>>

\* onChange of the end handle, rendered while showTrimControls
HandleEndTimeChange(value) ==
    /\ showTrimControls
    /\ endTime' = NewEndTime(value)
    /\ effect' = [NoEffect EXCEPT !.op = "handleEndTimeChange",
                                  !.seek = SeekFor(value)]
    /\ UNCHANGED <<currentFile, currentUrl, videoDuration, startTime, loading,
                   showTrimControls, showActions, ffmpegRef, metaPending, liveUrls, revokeTimers, fs, calls>>

\* onClick of "Preview Trim", rendered while showTrimControls
HandlePreviewTrim ==
    /\ showTrimControls
    /\ effect' = [NoEffect EXCEPT !.op = "handlePreviewTrim",
                                  !.seek = IF currentUrl # 0 THEN startTimeInSeconds
                                           ELSE NoSeek]
    /\ UNCHANGED <<session, ffmpegRef, metaPending, liveUrls,
                   revokeTimers, fs, calls>>

\* onClick of "Download Original", rendered while showActions
HandleDownload ==
    /\ showActions
    /\ effect' = IF currentFile # Null /\ currentUrl # 0
                 THEN [NoEffect EXCEPT !.op = "handleDownload", !.via = "save",
                                       !.data = FileData(currentFile),
                                       !.name = <<currentFile>>]
                 ELSE [NoEffect EXCEPT !.op = "handleDownload"]
    /\ UNCHANGED <<session, ffmpegRef, metaPending, liveUrls,
                   revokeTimers, fs, calls>>

\* Clear without setStartTime(0).
HandleClearKeepsStart ==
    /\ showActions
    /\ liveUrls' = EffectCleanup(ReleasePrevious(liveUrls), 0)
    /\ currentFile' = Null
    /\ currentUrl' = 0
    /\ videoDuration' = 0
    /\ endTime' = Hundred
    /\ showActions' = FALSE
    /\ showTrimControls' = FALSE
    /\ metaPending' = FALSE
    /\ effect' = [NoEffect EXCEPT !.op = "handleClear"]
    /\ UNCHANGED <<startTime, loading, ffmpegRef, revokeTimers, fs, calls>>

\* Clear without setShowTrimControls(false).
HandleClearKeepsControls ==
    /\ showActions
    /\ liveUrls' = EffectCleanup(ReleasePrevious(liveUrls), 0)
    /\ currentFile' = Null
    /\ currentUrl' = 0
    /\ videoDuration' = 0
    /\ startTime' = 0
    /\ endTime' = Hundred
    /\ showActions' = FALSE
    /\ metaPending' = FALSE
    /\ effect' = [NoEffect EXCEPT !.op = "handleClear"]
    /\ UNCHANGED <<showTrimControls, loading, ffmpegRef, revokeTimers, fs, calls>>

\* onClick of "Clear", rendered while showActions
HandleClear ==
    /\ showActions
    /\ liveUrls' = EffectCleanup(ReleasePrevious(liveUrls), 0)
    /\ currentFile' = Null
    /\ currentUrl' = 0
    /\ videoDuration' = 0
    /\ startTime' = 0
    /\ endTime' = Hundred
    /\ showActions' = FALSE
    /\ showTrimControls' = FALSE
    /\ metaPending' = FALSE
    /\ effect' = [NoEffect EXCEPT !.op = "handleClear"]
    /\ UNCHANGED <<loading, ffmpegRef, revokeTimers, fs, calls>>

---------------------------------------------------------------------------
(* The asynchronous handlers handleTrim and handleShare.  A call runs from *)
(* one await to the next in one step; between two steps any other handler  *)
(* may run.  A suspended call keeps the values of the render it was        *)
(* dispatched from (currentFile, startTimeInSeconds, duration) and the     *)
(* engine instance loadFFmpeg gave it.                                     *)

InFlight(i) == calls[i].pc # "idle"
FreeCalls == {i \in Calls : ~InFlight(i)}
NewCall == CHOOSE i \in FreeCalls : \A j \in FreeCalls : i <= j

\* if (ffmpegRef.current) return ffmpegRef.current, in loadFFmpeg
HandleCached == ffmpegRef # 0

\* The body of handleTrim / handleShare up to its first suspension.  Neither
\* handler reads `loading`, and no button is disabled while it is true.
Dispatch(mode, i) ==
    /\ IF currentFile = Null
       THEN /\ effect' = NoEffect
            /\ UNCHANGED <<loading, calls, fs>>
       ELSE /\ loading' = TRUE
            /\ calls' = [calls EXCEPT ![i] =
                   [pc |-> IF HandleCached THEN "write" ELSE "load",
                    mode |-> mode,
                    file |-> currentFile,
                    ss |-> startTimeInSeconds,
                    t |-> duration,
                    inst |-> IF HandleCached THEN ffmpegRef ELSE i,
                    exit |-> 0,
                    data |-> NoData]]
            \* new FFmpeg(): an instance with a filesystem of its own
            /\ fs' = IF HandleCached THEN fs ELSE [fs EXCEPT ![i] = EmptyFS]
            /\ effect' = NoEffect
    /\ UNCHANGED <<currentFile, currentUrl, videoDuration, startTime, endTime,
                   showTrimControls, showActions, ffmpegRef, metaPending, liveUrls, revokeTimers>>

\* onClick of "Trim & Download", rendered while showTrimControls
HandleTrim ==
    /\ showTrimControls
    /\ FreeCalls # {}
    /\ Dispatch("handleTrim", NewCall)

\* onClick of "Share/Save to Photos", rendered while showActions
HandleShare ==
    /\ showActions
    /\ FreeCalls # {}
    /\ Dispatch("handleShare", NewCall)

\* alert(`Error trimming video: ${errorMessage}`) in handleTrim,
\* alert(`Error: ${errorMessage}`) in handleShare
ErrorAlert(mode, message) ==
    IF mode = "handleTrim" THEN <<"Error trimming video: ", message>>
    ELSE <<"Error: ", message>>

\* The messages of the errors the awaited calls reject with.
LoadError == "failed to load the engine"
WriteError == "failed to write input.mp4"
ExecError == "the command was rejected"
ReadError == "no such file: output.mp4"
CanShareError == "navigator.canShare is not a function"
ShareError == "share was rejected"

\* Fail without the finally block.
FailKeepsLoading(i, message, code) ==
    /\ effect' = [NoEffect EXCEPT !.op = calls[i].mode,
                                  !.alert = ErrorAlert(calls[i].mode, message),
                                  !.exit = code]
    /\ loading' = loading
    /\ calls' = [calls EXCEPT ![i] = Idle]

\* catch (error) { alert(...) } finally { setLoading(false) }; code is the exit
\* code the engine gave this call, 0 when it gave none.
Fail(i, message, code) ==
    /\ effect' = [NoEffect EXCEPT !.op = calls[i].mode,
                                  !.alert = ErrorAlert(calls[i].mode, message),
                                  !.exit = code]
    /\ loading' = FALSE
    /\ calls' = [calls EXCEPT ![i] = Idle]

\* The load with ffmpegRef.current = ffmpeg stored before it is awaited.
LoadDoneCachesEarly(i) ==
    /\ calls[i].pc = "load"
    /\ ffmpegRef' = calls[i].inst
    /\ \E ok \in BOOLEAN :
         IF ok
         THEN /\ calls' = [calls EXCEPT ![i].pc = "write"]
              /\ effect' = NoEffect
              /\ UNCHANGED loading
         ELSE Fail(i, LoadError, 0)
    /\ UNCHANGED <<currentFile, currentUrl, videoDuration, startTime, endTime,
                   showTrimControls, showActions, metaPending,
                   liveUrls, revokeTimers, fs>>

\* await ffmpeg.load(...) settles; ffmpegRef.current = ffmpeg on success
LoadDone(i) ==
    /\ calls[i].pc = "load"
    /\ \E ok \in BOOLEAN :
         IF ok
         THEN /\ ffmpegRef' = calls[i].inst
              /\ calls' = [calls EXCEPT ![i].pc = "write"]
              /\ effect' = NoEffect
              /\ UNCHANGED loading
         ELSE /\ Fail(i, LoadError, 0)
              /\ UNCHANGED ffmpegRef
    /\ UNCHANGED <<currentFile, currentUrl, videoDuration, startTime, endTime,
                   showTrimControls, showActions, metaPending,
                   liveUrls, revokeTimers, fs>>

\* The write taking the file of the latest render instead of its own.
WriteDoneOfLatest(i) ==
    /\ calls[i].pc = "write"
    /\ \E ok \in BOOLEAN :
         IF ok
         THEN /\ fs' = [fs EXCEPT ![calls[i].inst].input = FileData(currentFile)]
              /\ calls' = [calls EXCEPT ![i].pc = "exec"]
              /\ effect' = NoEffect
              /\ UNCHANGED loading
         ELSE /\ Fail(i, WriteError, 0)
              /\ UNCHANGED fs
    /\ UNCHANGED <<currentFile, currentUrl, videoDuration, startTime, endTime,
                   showTrimControls, showActions, ffmpegRef, metaPending, liveUrls, revokeTimers>>

\* await ffmpeg.writeFile('input.mp4', await fetchFile(currentFile)) settles
WriteDone(i) ==
    /\ calls[i].pc = "write"
    /\ \E ok \in BOOLEAN :
         IF ok
         THEN /\ fs' = [fs EXCEPT ![calls[i].inst].input = FileData(calls[i].file)]
              /\ calls' = [calls EXCEPT ![i].pc = "exec"]
              /\ effect' = NoEffect
              /\ UNCHANGED loading
         ELSE /\ Fail(i, WriteError, 0)
              /\ UNCHANGED fs
    /\ UNCHANGED <<currentFile, currentUrl, videoDuration, startTime, endTime,
                   showTrimControls, showActions, ffmpegRef, metaPending, liveUrls, revokeTimers>>

\* What the external engine may do with one command: finish with exit code 0
\* and a clip of its input, finish with exit code 0 and an empty output file,
\* finish with a non-zero exit code and leave the output name untouched, or
\* reject the promise.
ExecOutcomes == {"clip", "empty", "failed", "rejected"}

ExitCodeOf(outcome) == IF outcome = "failed" THEN 1 ELSE 0

OutputAfter(disk, outcome, ss, t) ==
    CASE outcome = "clip" -> ClipData(disk.input.src, ss, t)
      [] outcome = "empty" -> EmptyData
      [] OTHER -> disk.output

\* `FFmpeg failed with exit code ${exitCode}`, for the exit codes of ExitCodeOf
ExitCodeError(code) ==
    IF code = 1 THEN "FFmpeg failed with exit code 1"
    ELSE "FFmpeg failed with exit code 0"

\* handleTrim: if (exitCode !== 0) throw; handleShare drops the exit code.
ChecksExitCode(mode) == mode = "handleTrim"

\* await ffmpeg.exec(['-ss', start, '-i', 'input.mp4', '-t', duration, '-c',
\* 'copy', '-avoid_negative_ts', 'make_zero', 'output.mp4']) settles
ExecDone(i) ==
    /\ calls[i].pc = "exec"
    /\ \E outcome \in ExecOutcomes :
         LET c == calls[i]
             code == ExitCodeOf(outcome)
         IN IF outcome = "rejected"
            THEN /\ Fail(i, ExecError, 0)
                 /\ UNCHANGED fs
            ELSE /\ fs' = [fs EXCEPT ![c.inst].output =
                              OutputAfter(fs[c.inst], outcome, c.ss, c.t)]
                 /\ IF ChecksExitCode(c.mode) /\ code # 0
                    THEN Fail(i, ExitCodeError(code), code)
                    ELSE /\ calls' = [calls EXCEPT ![i].pc = "read", ![i].exit = code]
                         /\ effect' = NoEffect
                         /\ UNCHANGED loading
    /\ UNCHANGED <<currentFile, currentUrl, videoDuration, startTime, endTime,
                   showTrimControls, showActions, ffmpegRef, metaPending, liveUrls, revokeTimers>>

\* `trimmed-${currentFile.name}`
TrimmedName(f) == <<"trimmed-", f>>

\* new Blob([new Uint8Array(data)]).size
BlobSize(data) == IF data.kind = "empty" THEN 0 ELSE 1

NoError == ""

\* The two checks between readFile and the delivery, without them.
OutputErrorUnchecked(data) == NoError

\* if (!data || data.length === 0) throw new Error('Output file is empty');
\* if (blob.size === 0) throw new Error('Created blob is empty')
OutputError(data) ==
    IF IsEmpty(data) THEN "Output file is empty"
    ELSE IF BlobSize(data) = 0 THEN "Created blob is empty"
    ELSE NoError

\* The save without its setTimeout(() => URL.revokeObjectURL(url)).
SaveWithoutTimer(i, data, message) ==
    /\ FreeUrls # {}
    /\ liveUrls' = liveUrls \cup {NewUrl}
    /\ revokeTimers' = revokeTimers
    /\ effect' = [NoEffect EXCEPT !.op = calls[i].mode, !.alert = message,
                                  !.via = "save", !.data = data,
                                  !.name = TrimmedName(calls[i].file),
                                  !.exit = calls[i].exit]
    /\ loading' = FALSE
    /\ calls' = [calls EXCEPT ![i] = Idle]

\* URL.createObjectURL(blob), a.click(), setTimeout(() => revokeObjectURL(url))
Save(i, data, message) ==
    /\ FreeUrls # {}
    /\ liveUrls' = liveUrls \cup {NewUrl}
    /\ revokeTimers' = revokeTimers \cup {NewUrl}
    /\ effect' = [NoEffect EXCEPT !.op = calls[i].mode, !.alert = message,
                                  !.via = "save", !.data = data,
                                  !.name = TrimmedName(calls[i].file),
                                  !.exit = calls[i].exit]
    /\ loading' = FALSE
    /\ calls' = [calls EXCEPT ![i] = Idle]

\* navigator.share && navigator.canShare({ files: [file] }): true, false, or
\* a TypeError where canShare is missing.
CanShare == {"yes", "no", "throws"}

\* await ffmpeg.readFile('output.mp4') settles (reading a name that does not
\* exist rejects), the output is checked, and the call runs on to its delivery: to the end in handleTrim, to await navigator.share in handleShare.
ReadDone(i) ==
    /\ calls[i].pc = "read"
    /\ LET c == calls[i]
           data == fs[c.inst].output
       IN IF data = NoData
          THEN /\ Fail(i, ReadError, c.exit)
               /\ UNCHANGED <<liveUrls, revokeTimers>>
          ELSE IF OutputError(data) # NoError
          THEN /\ Fail(i, OutputError(data), c.exit)
               /\ UNCHANGED <<liveUrls, revokeTimers>>
          ELSE IF c.mode = "handleTrim"
          THEN Save(i, data, <<"Video trimmed successfully!">>)
          ELSE \E can \in CanShare :
                 CASE can = "yes" ->
                        /\ calls' = [calls EXCEPT ![i].pc = "share", ![i].data = data]
                        /\ effect' = NoEffect
                        /\ UNCHANGED <<loading, liveUrls, revokeTimers>>
                   [] can = "no" ->
                        Save(i, data, <<"Share not supported. Video will download instead.">>)
                   [] OTHER ->
                        /\ Fail(i, CanShareError, c.exit)
                        /\ UNCHANGED <<liveUrls, revokeTimers>>
    /\ UNCHANGED <<currentFile, currentUrl, videoDuration, startTime, endTime,
                   showTrimControls, showActions, ffmpegRef, metaPending, fs>>

\* The share that puts the bounds back once the file is shared.
ShareDoneResetsBounds(i) ==
    /\ calls[i].pc = "share"
    /\ \E ok \in BOOLEAN :
         IF ok
         THEN /\ effect' = [NoEffect EXCEPT !.op = calls[i].mode, !.via = "share",
                                            !.data = calls[i].data,
                                            !.name = TrimmedName(calls[i].file),
                                            !.exit = calls[i].exit]
              /\ loading' = FALSE
              /\ calls' = [calls EXCEPT ![i] = Idle]
              /\ startTime' = 0
              /\ endTime' = Hundred
         ELSE /\ Fail(i, ShareError, calls[i].exit)
              /\ UNCHANGED <<startTime, endTime>>
    /\ UNCHANGED <<currentFile, currentUrl, videoDuration,
                   showTrimControls, showActions, ffmpegRef, metaPending, liveUrls, revokeTimers, fs>>

\* await navigator.share({ files: [file], ... }) settles
ShareDone(i) ==
    /\ calls[i].pc = "share"
    /\ \E ok \in BOOLEAN :
         IF ok
         THEN /\ effect' = [NoEffect EXCEPT !.op = calls[i].mode, !.via = "share",
                                            !.data = calls[i].data,
                                            !.name = TrimmedName(calls[i].file),
                                            !.exit = calls[i].exit]
              /\ loading' = FALSE
              /\ calls' = [calls EXCEPT ![i] = Idle]
         ELSE Fail(i, ShareError, calls[i].exit)
    /\ UNCHANGED <<currentFile, currentUrl, videoDuration, startTime, endTime,
                   showTrimControls, showActions, ffmpegRef, metaPending, liveUrls, revokeTimers, fs>>

\* setTimeout(() => { URL.revokeObjectURL(url) }, ...) fires
RevokeTimer(u) ==
    /\ u \in revokeTimers
    /\ liveUrls' = liveUrls \ {u}
    /\ revokeTimers' = revokeTimers \ {u}
    /\ effect' = NoEffect
    /\ UNCHANGED <<session, ffmpegRef, metaPending, fs, calls>>

---------------------------------------------------------------------------

InFlightCount == Cardinality({i \in Calls : InFlight(i)})

\* The events of the file input, the preview surface and "Clear".
SessionEvent(files) ==
    \/ \E file \in files : HandleFileChange(file)
    \/ HandleLoadedMetadata
    \/ HandleClear

\* The events of the trim controls and of "Download Original".
ControlEvent(values) ==
    \/ \E value \in values : HandleStartTimeChange(value)
    \/ \E value \in values : HandleEndTimeChange(value)
    \/ HandlePreviewTrim
    \/ HandleDownload

Resume(i) ==
    \/ LoadDone(i)
    \/ WriteDone(i)
    \/ ExecDone(i)
    \/ ReadDone(i)
    \/ ShareDone(i)

\* "Trim & Download" and "Share/Save to Photos" while fewer than `limit` calls
\* are suspended, and the steps of the suspended calls and timers.
EngineEvent(limit) ==
    \/ InFlightCount < limit /\ HandleTrim
    \/ InFlightCount < limit /\ HandleShare
    \/ \E i \in Calls : Resume(i)
    \/ \E u \in Urls : RevokeTimer(u)

OneVideo == {"a.mp4"} \cup OtherFiles \cup {Null}
AnyFile == Files \cup {Null}

\* Every handler, with one video file and one call at a time.
Next ==
    \/ SessionEvent(OneVideo)
    \/ ControlEvent(CoarseValues)
    \/ EngineEvent(1)

Spec == Init /\ [][Next]_vars

\* The session and its controls on every slider position, without the engine.
NextSession ==
    \/ SessionEvent(AnyFile)
    \/ ControlEvent(SliderValues)

SpecSession == Init /\ [][NextSession]_vars

\* Two video files and one call at a time, the trim bounds left where the
\* lifecycle events put them.
NextFiles ==
    \/ SessionEvent(AnyFile)
    \/ EngineEvent(1)

SpecFiles == Init /\ [][NextFiles]_vars

\* One video file, both handles on the quarter positions, one call at a time.
QuarterValues == {250, 750}

NextArgs ==
    \/ SessionEvent({"a.mp4"})
    \/ ControlEvent(QuarterValues)
    \/ EngineEvent(1)

SpecArgs == Init /\ [][NextArgs]_vars

\* Up to MaxCalls calls suspended at once, on one video file.
NextRace ==
    \/ SessionEvent(OneVideo)
    \/ EngineEvent(MaxCalls)

SpecRace == Init /\ [][NextRace]_vars

\* An awaited promise that settles lets its call run on, and a timer that was
\* set fires: the event loop leaves neither waiting forever.
Progress ==
    /\ \A i \in Calls : WF_vars(Resume(i))
    /\ \A u \in Urls : WF_vars(RevokeTimer(u))

\* Every handler, one call at a time, with that progress.
SpecLive == Init /\ [][Next]_vars /\ Progress

\* Two video files, one call at a time, with that progress.
SpecTimers == Init /\ [][NextFiles]_vars /\ Progress

---------------------------------------------------------------------------
(* C1.  In every state reached by file selections, metadata events, the    *)
(* two setters and clear, the trim bounds satisfy                          *)
(* 0 <= startTime < endTime <= 100.                                        *)

BoundsInRange ==
    /\ 0 <= startTime
    /\ startTime < endTime
    /\ endTime <= Hundred

(* C2.  At most one engine invocation (the writeFile / exec / readFile     *)
(* sequence of a handleTrim or handleShare call) is in flight at any time. *)

Invoking(i) == calls[i].pc \in {"write", "exec", "read"}

AtMostOneInvocation == Cardinality({i \in Calls : Invoking(i)}) <= 1

(* C3.  loading is true in exactly the states in which some handleTrim or  *)
(* handleShare call has started and not yet settled.                       *)

LoadingIffInFlight == loading <=> (\E i \in Calls : InFlight(i))

(* C4.  Every handleTrim or handleShare call whose awaited steps all       *)
(* settle ends, on whichever path, with loading = false.                   *)

SettledCallClearsLoading ==
    \A i \in Calls : InFlight(i) ~> (~InFlight(i) /\ ~loading)

SettledAfterFailure ==
    /\ effect.op = "handleShare"
    /\ effect.alert = ErrorAlert("handleShare", "Output file is empty")
    /\ ~loading
    /\ \A i \in Calls : ~InFlight(i)

IsErrorAlert(alert) ==
    /\ Len(alert) = 2
    /\ alert[1] \in {"Error trimming video: ", "Error: "}

(* C5.  In both delivery modes a call whose engine command returned a      *)
(* non-zero exit code ends in failure: it shows an error and delivers      *)
(* nothing.  effect.exit is the exit code of the call that has just ended. *)

NonZeroExitFails ==
    effect.exit # 0 => (IsErrorAlert(effect.alert) /\ effect.via = "none")

(* C6.  In both delivery modes a call that got exit code 0 and reads back  *)
(* an empty output buffer reports a failure and delivers nothing: no save, *)
(* no object URL, no share.                                                *)

EmptyOutputFails ==
    [][\A i \in Calls :
          (/\ calls[i].pc = "read"
           /\ calls[i].exit = 0
           /\ fs[calls[i].inst].output = EmptyData
           /\ calls'[i] # calls[i])
          => (/\ IsErrorAlert(effect'.alert)
              /\ effect'.via = "none"
              /\ liveUrls' = liveUrls
              /\ calls'[i] = Idle)]_vars

EmptyOutputReported ==
    /\ effect.alert \in {ErrorAlert("handleTrim", "Output file is empty"),
                         ErrorAlert("handleShare", "Output file is empty")}
    /\ effect.exit = 0
    /\ effect.via = "none"

(* C7.  A file event whose file does not declare a video type leaves every *)
(* session field unchanged, releases no object URL and shows the warning,  *)
(* from any state.                                                         *)

RejectedFileChangesNothing ==
    [][\A f \in AnyFile :
          (f \notin VideoFiles /\ HandleFileChange(f))
          => (/\ UNCHANGED session
              /\ liveUrls' = liveUrls
              /\ effect'.alert = <<"Please select a valid video file">>)]_vars

RejectedWithFileLoaded ==
    /\ effect.op = "handleFileChange"
    /\ effect.alert = <<"Please select a valid video file">>
    /\ currentFile # Null
    /\ currentUrl \in liveUrls

(* C8, as claimed.  After clear the session equals the initial state in    *)
(* every field, loading included, and no preview URL is left unreleased.   *)

ClearRestoresInitial ==
    [][effect'.op = "handleClear"
          => (/\ currentFile' = Null
              /\ currentUrl' = 0
              /\ videoDuration' = 0
              /\ startTime' = 0
              /\ endTime' = Hundred
              /\ loading' = FALSE
              /\ showTrimControls' = FALSE
              /\ showActions' = FALSE
              /\ liveUrls' = revokeTimers')]_vars

(* C8, amended.  After clear every session field but loading equals its    *)
(* initial value and no preview URL is left unreleased (the only live      *)
(* object URLs are those of output artifacts, each with its revoke timer); *)
(* clear leaves loading as it was.                                         *)

ClearRestoresAllButLoading ==
    [][effect'.op = "handleClear"
          => (/\ currentFile' = Null
              /\ currentUrl' = 0
              /\ videoDuration' = 0
              /\ startTime' = 0
              /\ endTime' = Hundred
              /\ loading' = loading
              /\ showTrimControls' = FALSE
              /\ showActions' = FALSE
              /\ liveUrls' = revokeTimers')]_vars

ClearedWhileProcessing ==
    /\ effect.op = "handleClear"
    /\ currentFile = Null
    /\ loading
    /\ \E i \in Calls : InFlight(i)

(* C9.  setStartFraction(v) with v >= endTime leaves startTime one point   *)
(* below endTime, never equal to it, and leaves endTime unchanged.         *)

StartCoercedBelowEnd ==
    [][\A v \in SliderValues :
          (v >= endTime /\ HandleStartTimeChange(v))
          => (/\ startTime' = endTime - StepsPerPercent
              /\ startTime' # endTime'
              /\ endTime' = endTime)]_vars

StartWasCoerced ==
    /\ effect.op = "handleStartTimeChange"
    /\ videoDuration > 0
    /\ effect.seek >= TimeOf(endTime, videoDuration)
    /\ startTime = endTime - StepsPerPercent

(* C10.  setEndFraction(v) with v <= startTime leaves endTime one point    *)
(* above startTime and leaves startTime unchanged.                         *)

EndCoercedAboveStart ==
    [][\A v \in SliderValues :
          (v <= startTime /\ HandleEndTimeChange(v))
          => (/\ endTime' = startTime + StepsPerPercent
              /\ startTime' = startTime)]_vars

EndWasCoerced ==
    /\ effect.op = "handleEndTimeChange"
    /\ videoDuration > 0
    /\ effect.seek # NoSeek
    /\ effect.seek <= TimeOf(startTime, videoDuration)
    /\ endTime = startTime + StepsPerPercent

(* C11.  In both modes the two numbers a call passes to the engine are     *)
(* startTime / 100 * videoDuration and (endTime - startTime) / 100 *       *)
(* videoDuration of the session state the call is dispatched from: the     *)
(* call takes them at its dispatch and the command it runs cuts its clip   *)
(* with them (120 s, 25 and 75 percent: 30 s and 60 s).                    *)

Dispatched(i) == ~InFlight(i) /\ InFlight(i)'

EngineArguments ==
    [][\A i \in Calls :
          /\ Dispatched(i)
             => /\ calls'[i].mode \in {"handleTrim", "handleShare"}
                /\ calls'[i].ss = startTime * videoDuration
                /\ calls'[i].t = (endTime - startTime) * videoDuration
          /\ (/\ calls[i].pc = "exec"
              /\ fs'[calls[i].inst].output # fs[calls[i].inst].output
              /\ fs'[calls[i].inst].output.kind = "clip")
             => /\ fs'[calls[i].inst].output.ss = calls[i].ss
                /\ fs'[calls[i].inst].output.t = calls[i].t]_vars

QuarterToThreeQuarters ==
    /\ videoDuration = 120
    /\ startTime = 25 * StepsPerPercent
    /\ endTime = 75 * StepsPerPercent
    /\ \E i \in Calls :
          /\ calls[i].pc = "read"
          /\ calls[i].mode = "handleShare"
          /\ fs[calls[i].inst].output = ClipData("a.mp4", 30 * Hundred, 60 * Hundred)

(* C12.  At most one engine instance is ever created and loaded: a handle *)
(* that is cached is never replaced by another instance, and a call        *)
(* dispatched while a handle is cached takes that handle without loading.  *)

SingleEngineInstance ==
    [][/\ ffmpegRef # 0 => ffmpegRef' = ffmpegRef
       /\ \A i \in Calls :
             (Dispatched(i) /\ ffmpegRef # 0)
             => (calls'[i].inst = ffmpegRef /\ calls'[i].pc # "load")]_vars

(* C13.  A handleShare call that has read back a non-empty output always  *)
(* delivers it: by the native share, or by a save where sharing files is   *)
(* unsupported or the share is rejected; it never ends in an error.        *)

HasArtifact(i) ==
    /\ calls[i].mode = "handleShare"
    /\ \/ calls[i].pc = "share"
       \/ /\ calls[i].pc = "read"
          /\ fs[calls[i].inst].output \notin {NoData, EmptyData}

ShareAlwaysDelivers ==
    [][\A i \in Calls :
          (HasArtifact(i) /\ calls'[i] = Idle)
          => (effect'.via \in {"share", "save"} /\ ~IsErrorAlert(effect'.alert))]_vars

(* C14.  The metadata event that follows the replacement of a file leaves  *)
(* the trim bounds on the full range, startTime = 0 and endTime = 100,     *)
(* whatever they were for the previous file.  (The trim controls are shown *)
(* while that event is due exactly when the file before it had its own     *)
(* metadata event and was not cleared.)                                    *)

MetadataAfterReplace ==
    /\ metaPending /\ ~metaPending'
    /\ showTrimControls
    /\ currentFile' # Null

ReplaceResetsBounds ==
    [][MetadataAfterReplace => (startTime' = 0 /\ endTime' = Hundred)]_vars

(* C15.  A call whose engine load fails ends there: it shows the error,    *)
(* runs no engine command (the engine's files are untouched), delivers     *)
(* nothing, does not load again, and caches no handle, so that after a     *)
(* call at a time the handle is still absent.                              *)

LoadFailed(i) ==
    /\ calls[i].pc = "load"
    /\ calls'[i] # calls[i]
    /\ calls'[i].pc # "write"

LoadFailureIsFatal ==
    [][\A i \in Calls :
          LoadFailed(i)
          => (/\ effect'.alert = ErrorAlert(calls[i].mode, LoadError)
              /\ effect'.via = "none"
              /\ fs' = fs
              /\ liveUrls' = liveUrls
              /\ calls'[i] = Idle
              /\ ffmpegRef' = ffmpegRef
              /\ ffmpegRef' # calls[i].inst)]_vars

LoadFailureReported ==
    /\ effect.alert \in {ErrorAlert("handleTrim", LoadError),
                         ErrorAlert("handleShare", LoadError)}
    /\ ffmpegRef = 0
    /\ ~loading
    /\ \A i \in Calls : ~InFlight(i)

(* C16.  In every state the preview URLs created and not yet revoked are   *)
(* exactly the current one, and none when currentUrl is null.  The live    *)
(* URLs with a revoke timer are those of output artifacts, not previews.   *)

PreviewUrls == liveUrls \ revokeTimers

OnlyCurrentPreviewLive ==
    PreviewUrls = IF currentUrl = 0 THEN {} ELSE {currentUrl}

ReplacedPreviewReleased ==
    /\ ffmpegRef = 0
    /\ currentFile = "b.mp4"
    /\ currentUrl = 2
    /\ liveUrls = {2}

(* C17.  A handleTrim or handleShare call is dispatched only when the      *)
(* metadata event of the current file has occurred, and videoDuration is 0 *)
(* from a successful file selection until that event, so that no call runs *)
(* with a duration of no file or of the file selected before.              *)

MetadataReady ==
    /\ currentFile # Null
    /\ showTrimControls
    /\ ~metaPending

InvocationOnlyWhenReady ==
    [][/\ \A i \in Calls : Dispatched(i) => MetadataReady
       /\ metaPending' => videoDuration' = 0]_vars

(* C18.  No step of a handleTrim or handleShare call, from its dispatch to *)
(* its end on any path, changes a session field other than loading: the    *)
(* file, the preview URL, the duration, the bounds and the two visibility  *)
(* flags are what the other handlers left.                                 *)

CallStep == \E i \in Calls : calls'[i] # calls[i]

CallsKeepSession ==
    [][CallStep => UNCHANGED <<currentFile, currentUrl, videoDuration, startTime,
                               endTime, showTrimControls, showActions>>]_vars

SharedWithBoundsKept ==
    /\ effect.op = "handleShare"
    /\ effect.via = "share"
    /\ currentFile = "a.mp4"
    /\ videoDuration = 120
    /\ startTime = 5
    /\ endTime = 15
    /\ showTrimControls /\ showActions

(* C19.  Once currentFile is set, the only handler that makes it null      *)
(* again is handleClear: no rejected file event, metadata event, setter,   *)
(* preview, download, or step of a handleTrim / handleShare call does.     *)

OnlyClearEmpties ==
    [][(currentFile # Null /\ currentFile' = Null) => HandleClear]_vars

FileKeptAfterFailure ==
    /\ effect.op = "handleTrim"
    /\ effect.alert = ErrorAlert("handleTrim", ExitCodeError(1))
    /\ currentFile = "a.mp4"
    /\ currentUrl # 0

(* C20.  In every state showActions is true exactly when a file is         *)
(* present, and showTrimControls is true only when a file is present.      *)

FlagsMatchFile ==
    /\ showActions <=> currentFile # Null
    /\ showTrimControls => currentFile # Null

ControlsShownForFile ==
    /\ currentFile = "b.mp4"
    /\ showActions
    /\ showTrimControls
    /\ ~metaPending
    /\ videoDuration = 60

(* C21.  Every object URL created for an output artifact, by the save of   *)
(* handleTrim and by the fallback save of handleShare, is eventually       *)
(* revoked.  A live URL that is not the preview's is an artifact's.        *)

ArtifactUrl(u) == u \in liveUrls /\ u # currentUrl

ArtifactUrlsReleased ==
    \A u \in Urls : ArtifactUrl(u) ~> (u \notin liveUrls)

FallbackArtifactLive ==
    /\ effect.op = "handleShare"
    /\ effect.via = "save"
    /\ \E u \in Urls : ArtifactUrl(u)

(* C22.  The seek a setter asks of the preview goes to the time of the     *)
(* bound that setter has stored, startTime / 100 * videoDuration or        *)
(* endTime / 100 * videoDuration, also when the value was coerced.         *)

SeekTargetsStoredBound ==
    /\ (effect.op = "handleStartTimeChange" /\ effect.seek # NoSeek)
       => effect.seek = TimeOf(startTime, videoDuration)
    /\ (effect.op = "handleEndTimeChange" /\ effect.seek # NoSeek)
       => effect.seek = TimeOf(endTime, videoDuration)

(* C23.  The bytes a handleTrim or handleShare call delivers are the clip  *)
(* its own engine command cut from its own input with its own arguments,   *)
(* never an output.mp4 that another call left in the engine's filesystem.  *)

Delivers(i) ==
    /\ InFlight(i)
    /\ calls'[i] = Idle
    /\ effect'.via \in {"save", "share"}

DeliversOwnOutput ==
    [][\A i \in Calls :
          Delivers(i)
          => effect'.data = ClipData(calls[i].file, calls[i].ss, calls[i].t)]_vars

(* C24.  Every call dispatched while videoDuration > 0 gives the engine a  *)
(* window inside the media: its start is not negative, its length is       *)
(* positive and its end is not beyond videoDuration.                       *)

WindowInsideMedia ==
    [][\A i \in Calls :
          (Dispatched(i) /\ videoDuration > 0)
          => (/\ calls'[i].ss >= 0
              /\ calls'[i].t > 0
              /\ calls'[i].ss + calls'[i].t <= TimeOf(Hundred, videoDuration))]_vars

(* C25.  A call works with the file, the bounds and the duration of the    *)
(* state it was dispatched from: while it is suspended, setters, file      *)
(* events and clear change neither the bytes it writes, nor the arguments  *)
(* of its command, nor the name of the file it delivers, and they do not   *)
(* end it.                                                                 *)

SessionStep ==
    \/ currentFile' # currentFile
    \/ videoDuration' # videoDuration
    \/ startTime' # startTime
    \/ endTime' # endTime

CallKeepsDispatchValues ==
    [][/\ SessionStep => calls' = calls
       /\ \A i \in Calls :
             /\ Dispatched(i)
                => /\ calls'[i].file = currentFile
                   /\ calls'[i].ss = TimeOf(startTime, videoDuration)
                   /\ calls'[i].ss + calls'[i].t = TimeOf(endTime, videoDuration)
             /\ (InFlight(i) /\ InFlight(i)')
                => /\ calls'[i].file = calls[i].file
                   /\ calls'[i].ss = calls[i].ss
                   /\ calls'[i].t = calls[i].t
                   /\ calls'[i].mode = calls[i].mode
             /\ (calls[i].pc = "write" /\ calls'[i].pc = "exec")
                => fs'[calls[i].inst].input = FileData(calls[i].file)
             /\ (calls[i].pc = "exec" /\ calls'[i].pc = "read"
                                      /\ fs'[calls[i].inst].output.kind = "clip"
                                      /\ fs'[calls[i].inst].output # fs[calls[i].inst].output)
                => fs'[calls[i].inst].output =
                       ClipData(fs[calls[i].inst].input.src, calls[i].ss, calls[i].t)
             /\ Delivers(i) => effect'.name = TrimmedName(calls[i].file)]_vars

DeliveredAfterClear ==
    /\ effect.op = "handleTrim"
    /\ effect.via = "save"
    /\ effect.name = TrimmedName("a.mp4")
    /\ effect.data = ClipData("a.mp4", TimeOf(5, 120), TimeOf(10, 120))
    /\ currentFile = Null
    /\ startTime = 0
    /\ videoDuration = 0

====
